---- MODULE Spec2Model ----
(***************************************************************************)
(* Command dispatch and permission gating of PsyBot                        *)
(* (bin/templates/command.js): CommandProperty, DefaultCommand and          *)
(* DefaultAlias.                                                            *)
(*                                                                          *)
(* JavaScript values of mixed type (true / false / null / an error code)    *)
(* are modelled as tagged strings, so that they stay comparable.            *)
(***************************************************************************)
EXTENDS Integers, Sequences, FiniteSets, TLC

(* ------------------------------------------------------------------ *)
(* Bounds of the model                                                 *)
(* ------------------------------------------------------------------ *)
MaxBlacklist == 2
MaxWhitelist == 2
MaxArgs == 5

(* ------------------------------------------------------------------ *)
(* Values                                                              *)
(* ------------------------------------------------------------------ *)
JsTrue == "true"
JsFalse == "false"
JsNull == "null"
JsUndefined == "undefined"

\* ErrorStrings = require("../../errors").commands : opaque identifiers
ErrorStrings ==
    [blacklistedUser |-> "blacklistedUser",
     permissionError |-> "permissionError",
     dmDisabled      |-> "dmDisabled",
     minArgLimit     |-> "minArgLimit",
     maxArgLimit     |-> "maxArgLimit",
     notImplemented  |-> "notImplemented"]

\* Config.owner
ConfigOwner == "u1"

\* A rule entry {type, id, exact}; a missing `exact` is falsy.
Entry(t, i, e) == [type |-> t, id |-> i, exact |-> e]

(* ------------------------------------------------------------------ *)
(* The chat platform's side of a call: guild, members, channels        *)
(* ------------------------------------------------------------------ *)
\* message.guild.roles : the roles that resolve, with calculatedPosition
GuildRoles == {"everyone", "r1", "r2"}
CalculatedPosition(r) ==
    CASE r = "everyone" -> 0
      [] r = "r1" -> 1
      [] r = "r2" -> 2

\* message.member : id, roles held, highestRole
Members ==
    { [id |-> "u1", roles |-> {"everyone"},        highestRole |-> "everyone"],
      [id |-> "u2", roles |-> {"everyone", "r1"},  highestRole |-> "r1"],
      [id |-> "u3", roles |-> {"everyone", "r2"},  highestRole |-> "r2"] }

\* message.channel : id and type
Channels ==
    { [id |-> "c1", type |-> "text"],
      [id |-> "d1", type |-> "dm"] }

ArgCounts == 0..MaxArgs

BlacklistEntries ==
    { Entry("user", "u1", FALSE), Entry("channel", "c1", FALSE) }

WhitelistEntries ==
    { Entry("user", "u1", FALSE),
      Entry("role", "r1", TRUE),
      Entry("role", "r2", FALSE),
      Entry("role", "r9", FALSE) }

SeqsUpTo(S, n) == UNION { [1..k -> S] : k \in 0..n }

MinArgsValues == {-1, 2}
MaxArgsValues == {-1, 4}

(* ------------------------------------------------------------------ *)
(* State                                                               *)
(* ------------------------------------------------------------------ *)
\* Two CommandProperty objects built for the same command name; the command
\* (DefaultCommand._properties) owns the first, the alias links to the command.
Props == {"p1", "p2"}
CommandProps == "p1"
CommandName == "ping"
\* Keys of the "cmd_lists" database
CommandNames == {"ping", "help"}

VARIABLES
    props,      \* the CommandProperty objects, by identity
    dbData,     \* the "cmd_lists" database: is _data there, and its records
    commits,    \* number of dbSys.commit calls
    loaded,     \* per property: outcome of its last _updatePermissions
    last        \* the last call made and its outcome

vars == <<props, dbData, commits, loaded, last>>

\* new CommandProperty(commandName)
NewCommandProperty(name) ==
    [_command      |-> name,
     _minArgs      |-> -1,
     _maxArgs      |-> -1,
     _allowDM      |-> TRUE,
     _fixedPermissions |-> TRUE,
     _whitelist    |-> <<Entry("user", ConfigOwner, FALSE)>>,
     _blacklist    |-> <<>>,
     _useWhitelist |-> TRUE,
     _manager      |-> JsUndefined]

\* last: the call (op, receiver, message, argument count), what
\* checkProperties yields for it (resp), how the call ended (kind: return or
\* throw, value) and what it did (runs: calls of run, sent: channel.send calls)
NoCall ==
    [op |-> "none", p |-> "p1", member |-> "u1", channel |-> "c1", argc |-> 0,
     resp |-> JsUndefined, kind |-> "none", value |-> JsUndefined,
     runs |-> 0, sent |-> 0]

\* A record of the database, or its absence (db[name] == null)
NoRecord == [present |-> FALSE, whitelist |-> <<>>, blacklist |-> <<>>]
Record(wl, bl) == [present |-> TRUE, whitelist |-> wl, blacklist |-> bl]
\* getDatabase("cmd_lists")._data == null
NoDatabase == [avail |-> FALSE, recs |-> [n \in CommandNames |-> NoRecord]]

(* ------------------------------------------------------------------ *)
(* DefaultCommand.checkProperties                                      *)
(* ------------------------------------------------------------------ *)
\* Variant: a matching channel entry leaves isBlacklisted as it was.
BlacklistEntryOutcome_ChannelIgnored(entry, userID, channelID, isBlacklisted) ==
    CASE entry.type = "user" /\ userID = entry.id -> ErrorStrings.blacklistedUser
      [] OTHER -> isBlacklisted

\* One pass of the switch over a blacklist entry: the new isBlacklisted.
\* The `break` statements leave the switch, not the for loop.
\* Lines 86-87 return any value other than null, false included.
BlacklistEntryOutcome(entry, userID, channelID, isBlacklisted) ==
    CASE entry.type = "user" /\ userID = entry.id -> ErrorStrings.blacklistedUser
      [] entry.type = "channel" /\ channelID = entry.id -> JsFalse
      [] OTHER -> isBlacklisted

\* Variant: the loop stops at the first entry that sets isBlacklisted.
RECURSIVE BlacklistLoop_FirstMatchWins(_, _, _, _, _)
BlacklistLoop_FirstMatchWins(bl, i, userID, channelID, isBlacklisted) ==
    IF i > Len(bl) \/ isBlacklisted # JsNull THEN isBlacklisted
    ELSE BlacklistLoop_FirstMatchWins(bl, i + 1, userID, channelID,
             BlacklistEntryOutcome(bl[i], userID, channelID, isBlacklisted))

RECURSIVE BlacklistLoop(_, _, _, _, _)
BlacklistLoop(bl, i, userID, channelID, isBlacklisted) ==
    IF i > Len(bl) THEN isBlacklisted
    ELSE BlacklistLoop(bl, i + 1, userID, channelID,
                       BlacklistEntryOutcome(bl[i], userID, channelID, isBlacklisted))

BlacklistScan(bl, userID, channelID) ==
    BlacklistLoop(bl, 1, userID, channelID, JsNull)

\* Variant: the ranked match needs a strictly higher role (>= for >).
WhitelistEntryMatches_StrictRank(entry, member) ==
    CASE entry.type = "user" -> entry.id = member.id
      [] entry.type = "role" /\ entry.exact -> entry.id \in member.roles
      [] entry.type = "role" /\ ~entry.exact ->
            ~(entry.id \notin GuildRoles
              \/ CalculatedPosition(entry.id) >= CalculatedPosition(member.highestRole))
      [] OTHER -> FALSE

\* The switch over a whitelist entry: does it set isWhitelisted = true
WhitelistEntryMatches(entry, member) ==
    CASE entry.type = "user" -> entry.id = member.id
      [] entry.type = "role" /\ entry.exact -> entry.id \in member.roles
      [] entry.type = "role" /\ ~entry.exact ->
            ~(entry.id \notin GuildRoles
              \/ CalculatedPosition(entry.id) > CalculatedPosition(member.highestRole))
      [] OTHER -> FALSE

RECURSIVE WhitelistLoop(_, _, _, _)
WhitelistLoop(wl, i, member, isWhitelisted) ==
    IF i > Len(wl) THEN isWhitelisted
    ELSE IF isWhitelisted = JsTrue THEN isWhitelisted
    ELSE WhitelistLoop(wl, i + 1, member,
                       IF WhitelistEntryMatches(wl[i], member) THEN JsTrue
                       ELSE isWhitelisted)

WhitelistScan(wl, member) == WhitelistLoop(wl, 1, member, JsNull)

\* Variant: the maximum is compared with <= (off by one).
LimitsCheck_MaxOffByOne(prop, channel, argc) ==
    IF ~prop._allowDM /\ channel.type = "dm" THEN ErrorStrings.dmDisabled
    ELSE IF prop._minArgs # -1 /\ prop._minArgs > argc THEN ErrorStrings.minArgLimit
    ELSE IF prop._maxArgs # -1 /\ prop._maxArgs <= argc THEN ErrorStrings.maxArgLimit
    ELSE JsTrue

\* Channel type and argument limits
LimitsCheck(prop, channel, argc) ==
    IF ~prop._allowDM /\ channel.type = "dm" THEN ErrorStrings.dmDisabled
    ELSE IF prop._minArgs # -1 /\ prop._minArgs > argc THEN ErrorStrings.minArgLimit
    ELSE IF prop._maxArgs # -1 /\ prop._maxArgs < argc THEN ErrorStrings.maxArgLimit
    ELSE JsTrue

\* Variant: the whitelist step denies only on isWhitelisted == false, so a
\* scan that matched nothing (null) passes.
checkProperties_NullPasses(prop, member, channel, argc) ==
    LET isBlacklisted == BlacklistScan(prop._blacklist, member.id, channel.id)
    IN  IF isBlacklisted # JsNull THEN isBlacklisted
        ELSE IF prop._useWhitelist /\ WhitelistScan(prop._whitelist, member) = JsFalse
             THEN ErrorStrings.permissionError
        ELSE LimitsCheck(prop, channel, argc)

checkProperties(prop, member, channel, argc) ==
    LET isBlacklisted == BlacklistScan(prop._blacklist, member.id, channel.id)
    IN  IF isBlacklisted # JsNull THEN isBlacklisted
        ELSE IF prop._useWhitelist /\ WhitelistScan(prop._whitelist, member) # JsTrue
             THEN ErrorStrings.permissionError
        ELSE LimitsCheck(prop, channel, argc)

\* A call of checkProperties on the command that owns property p
CheckProperties(p, member, channel, argc) ==
    /\ last' = [op |-> "check", p |-> p, member |-> member.id,
                channel |-> channel.id, argc |-> argc,
                resp |-> checkProperties(props[p], member, channel, argc),
                kind |-> "return",
                value |-> checkProperties(props[p], member, channel, argc),
                runs |-> 0, sent |-> 0]
    /\ UNCHANGED <<props, dbData, commits, loaded>>

(* ------------------------------------------------------------------ *)
(* DefaultCommand.exec, DefaultCommand.run, DefaultAlias.exec          *)
(* ------------------------------------------------------------------ *)
\* run(message, args) of the base class: [false, ErrorStrings.notImplemented]
run == "[false, notImplemented]"

\* Identifiers bound where exec's body is evaluated: the module's requires and
\* classes, exec's parameters and local, and `this`.  A method of the class
\* is a property of `this`, not a binding.
ExecScope ==
    {"Config", "ErrorStrings", "Utils", "ErrorReply",
     "DefaultCommand", "DefaultAlias", "CommandProperty",
     "this", "message", "args", "resp"}

\* DefaultCommand.exec: how the call ends and what it did.  Line 35 calls the
\* bare identifier checkProperties; an unbound identifier throws
\* ReferenceError before anything else happens.
exec(prop, member, channel, argc) ==
    IF "checkProperties" \notin ExecScope
    THEN [kind |-> "throw", value |-> "ReferenceError", runs |-> 0, sent |-> 0]
    ELSE LET resp == checkProperties(prop, member, channel, argc)
         IN  IF resp = JsTrue
             THEN [kind |-> "return", value |-> run, runs |-> 1, sent |-> 0]
             ELSE IF resp # JsFalse
             THEN [kind |-> "return", value |-> JsFalse, runs |-> 0, sent |-> 1]
             ELSE [kind |-> "return", value |-> JsFalse, runs |-> 0, sent |-> 0]

\* DefaultAlias.exec: calls the link's exec and drops its result (no return)
aliasExec(prop, member, channel, argc) ==
    LET r == exec(prop, member, channel, argc)
    IN  IF r.kind = "throw" THEN r ELSE [r EXCEPT !.value = JsUndefined]

Exec(member, channel, argc) ==
    LET r == exec(props[CommandProps], member, channel, argc)
    IN  /\ last' = [op |-> "exec", p |-> CommandProps, member |-> member.id,
                    channel |-> channel.id, argc |-> argc,
                    resp |-> checkProperties(props[CommandProps], member, channel, argc),
                    kind |-> r.kind, value |-> r.value,
                    runs |-> r.runs, sent |-> r.sent]
        /\ UNCHANGED <<props, dbData, commits, loaded>>

AliasExec(member, channel, argc) ==
    LET r == aliasExec(props[CommandProps], member, channel, argc)
    IN  /\ last' = [op |-> "aliasExec", p |-> CommandProps, member |-> member.id,
                    channel |-> channel.id, argc |-> argc,
                    resp |-> checkProperties(props[CommandProps], member, channel, argc),
                    kind |-> r.kind, value |-> r.value,
                    runs |-> r.runs, sent |-> r.sent]
        /\ UNCHANGED <<props, dbData, commits, loaded>>

(* ------------------------------------------------------------------ *)
(* CommandProperty: setters, finish, _updatePermissions                *)
(* ------------------------------------------------------------------ *)
setArgs(p, min, max) ==
    /\ props' = [props EXCEPT ![p]._minArgs = min, ![p]._maxArgs = max]
    /\ UNCHANGED <<dbData, commits, loaded, last>>

noArgs(p) ==
    /\ props' = [props EXCEPT ![p]._minArgs = -1, ![p]._maxArgs = -1]
    /\ UNCHANGED <<dbData, commits, loaded, last>>

allowDM(p, dm) ==
    /\ props' = [props EXCEPT ![p]._allowDM = dm]
    /\ UNCHANGED <<dbData, commits, loaded, last>>

setFixedPermissions(p, val) ==
    /\ props' = [props EXCEPT ![p]._fixedPermissions = val]
    /\ UNCHANGED <<dbData, commits, loaded, last>>

forceWhitelist(p, val) ==
    /\ props' = [props EXCEPT ![p]._useWhitelist = val]
    /\ UNCHANGED <<dbData, commits, loaded, last>>

\* The registry hands the property its manager (this._manager is read by
\* _updatePermissions and set by nothing in CommandProperty).
AttachManager(p) ==
    /\ props[p]._manager = JsUndefined
    /\ props' = [props EXCEPT ![p]._manager = "manager"]
    /\ UNCHANGED <<dbData, commits, loaded, last>>

\* Variant: the commit is issued on every load, not only on creation.
UpdatePermissions_AlwaysCommits(prop, db) ==
    IF prop._manager = JsUndefined
    THEN [prop |-> prop, db |-> db, commits |-> 0, loaded |-> "threw",
          kind |-> "throw", value |-> "TypeError"]
    ELSE IF ~db.avail
    THEN [prop |-> [prop EXCEPT !._whitelist = <<>>], db |-> db, commits |-> 0,
          loaded |-> "failed", kind |-> "return", value |-> JsFalse]
    ELSE LET created == ~db.recs[prop._command].present
             db2 == IF created
                    THEN [db EXCEPT !.recs[prop._command] =
                             Record(prop._whitelist, prop._blacklist)]
                    ELSE db
         IN  [prop |-> [prop EXCEPT
                          !._whitelist = db2.recs[prop._command].whitelist,
                          !._blacklist = db2.recs[prop._command].blacklist],
              db |-> db2, commits |-> 1,
              loaded |-> "ok", kind |-> "return", value |-> JsUndefined]

\* Variant: a missing database leaves the default whitelist in place.
UpdatePermissions_KeepsDefaults(prop, db) ==
    IF prop._manager = JsUndefined
    THEN [prop |-> prop, db |-> db, commits |-> 0, loaded |-> "threw",
          kind |-> "throw", value |-> "TypeError"]
    ELSE IF ~db.avail
    THEN [prop |-> prop, db |-> db, commits |-> 0,
          loaded |-> "failed", kind |-> "return", value |-> JsFalse]
    ELSE LET created == ~db.recs[prop._command].present
             db2 == IF created
                    THEN [db EXCEPT !.recs[prop._command] =
                             Record(prop._whitelist, prop._blacklist)]
                    ELSE db
         IN  [prop |-> [prop EXCEPT
                          !._whitelist = db2.recs[prop._command].whitelist,
                          !._blacklist = db2.recs[prop._command].blacklist],
              db |-> db2, commits |-> IF created THEN 1 ELSE 0,
              loaded |-> "ok", kind |-> "return", value |-> JsUndefined]

\* _updatePermissions on property `prop` against database `db`: the property
\* and the database afterwards, the number of commits issued, and how the
\* call ended.
UpdatePermissions(prop, db) ==
    IF prop._manager = JsUndefined
    THEN \* this._manager.getSystem(...) on undefined
         [prop |-> prop, db |-> db, commits |-> 0, loaded |-> "threw",
          kind |-> "throw", value |-> "TypeError"]
    ELSE IF ~db.avail
    THEN \* db == null
         [prop |-> [prop EXCEPT !._whitelist = <<>>], db |-> db, commits |-> 0,
          loaded |-> "failed", kind |-> "return", value |-> JsFalse]
    ELSE LET created == ~db.recs[prop._command].present
             db2 == IF created
                    THEN [db EXCEPT !.recs[prop._command] =
                             Record(prop._whitelist, prop._blacklist)]
                    ELSE db
         IN  [prop |-> [prop EXCEPT
                          !._whitelist = db2.recs[prop._command].whitelist,
                          !._blacklist = db2.recs[prop._command].blacklist],
              db |-> db2, commits |-> IF created THEN 1 ELSE 0,
              loaded |-> "ok", kind |-> "return", value |-> JsUndefined]

\* finish(): runs _updatePermissions and returns nothing
finish(p) ==
    LET r == UpdatePermissions(props[p], dbData)
    IN  /\ props' = [props EXCEPT ![p] = r.prop]
        /\ dbData' = r.db
        /\ commits' = commits + r.commits
        /\ loaded' = [loaded EXCEPT ![p] = r.loaded]
        /\ last' = [op |-> "finish", p |-> p, member |-> NoCall.member,
                    channel |-> NoCall.channel, argc |-> 0, resp |-> JsUndefined,
                    kind |-> r.kind,
                    value |-> IF r.kind = "throw" THEN r.value ELSE JsUndefined,
                    runs |-> 0, sent |-> 0]

(* ------------------------------------------------------------------ *)
(* Specification: construction, configuration, load, calls             *)
(* ------------------------------------------------------------------ *)
\* What the database may hold for the command when the bot starts
StoredRecords ==
    { NoRecord,
      Record(<<Entry("role", "r1", TRUE)>>, <<Entry("channel", "c1", FALSE)>>),
      Record(<<>>, <<Entry("user", "u1", FALSE)>>) }

Databases ==
    {NoDatabase} \cup
    { [avail |-> TRUE,
       recs |-> [n \in CommandNames |->
                   IF n = CommandName THEN r ELSE Record(<<>>, <<>>)]] :
      r \in StoredRecords }

Init ==
    /\ props = [p \in Props |-> NewCommandProperty(CommandName)]
    /\ dbData \in Databases
    /\ commits = 0
    /\ loaded = [p \in Props |-> "never"]
    /\ last = NoCall

\* Argument counts of the calls made in this specification
CallArgCounts == {MaxArgs}

Next ==
    \/ \E mn \in MinArgsValues \ {-1}, mx \in MaxArgsValues \ {-1} :
          setArgs(CommandProps, mn, mx)
    \/ noArgs(CommandProps)
    \/ \E dm \in BOOLEAN : allowDM(CommandProps, dm)
    \/ \E val \in BOOLEAN : setFixedPermissions(CommandProps, val)
    \/ \E val \in BOOLEAN : forceWhitelist(CommandProps, val)
    \/ \E p \in Props : AttachManager(p)
    \/ \E p \in Props : finish(p)
    \/ \E m \in Members, c \in Channels, n \in CallArgCounts :
          CheckProperties(CommandProps, m, c, n)
    \/ \E m \in Members, c \in Channels, n \in CallArgCounts : Exec(m, c, n)
    \/ \E m \in Members, c \in Channels, n \in CallArgCounts : AliasExec(m, c, n)

Spec == Init /\ [][Next]_vars

(* ------------------------------------------------------------------ *)
(* Specification of checkProperties over drawn configurations          *)
(* ------------------------------------------------------------------ *)

InitCheck ==
    /\ \E wl \in SeqsUpTo(WhitelistEntries, MaxWhitelist),
          bl \in SeqsUpTo(BlacklistEntries, MaxBlacklist),
          dm \in BOOLEAN, uw \in BOOLEAN,
          mn \in MinArgsValues, mx \in MaxArgsValues :
          props = [p \in Props |->
                      IF p = CommandProps
                      THEN [NewCommandProperty(CommandName) EXCEPT
                               !._whitelist = wl, !._blacklist = bl,
                               !._allowDM = dm, !._useWhitelist = uw,
                               !._minArgs = mn, !._maxArgs = mx]
                      ELSE NewCommandProperty(CommandName)]
    /\ dbData = NoDatabase
    /\ commits = 0
    /\ loaded = [p \in Props |-> "never"]
    /\ last = NoCall

\* One call per drawn configuration: checkProperties reads the property and the
\* message only, so a second call from the same configuration adds no state.
NextCheck ==
    /\ last.op = "none"
    /\ \E m \in Members, c \in Channels, n \in ArgCounts :
          CheckProperties(CommandProps, m, c, n)

SpecCheck == InitCheck /\ [][NextCheck]_vars

(* ------------------------------------------------------------------ *)
(* The last call, as seen by the properties below                      *)
(* ------------------------------------------------------------------ *)
Checked == last.op = "check"
Cfg == props[last.p]
LastMember == CHOOSE m \in Members : m.id = last.member
LastChannel == CHOOSE c \in Channels : c.id = last.channel

UserEntryMatches(e) == e.type = "user" /\ e.id = last.member
ChannelEntryMatches(e) == e.type = "channel" /\ e.id = last.channel
BlacklistMatches(e) == UserEntryMatches(e) \/ ChannelEntryMatches(e)
MatchingBlacklistIndexes ==
    { i \in DOMAIN Cfg._blacklist : BlacklistMatches(Cfg._blacklist[i]) }
NoBlacklistMatch == MatchingBlacklistIndexes = {}

Max(S) == CHOOSE x \in S : \A y \in S : y <= x
Min(S) == CHOOSE x \in S : \A y \in S : x <= y

\* C1 (as claimed): a blacklist holding a `user` entry with the caller's id makes
\* checkProperties return the blacklisted-user error, whatever else the
\* blacklist, the whitelist, the channel, the DM flag and the arguments are.
C1_BlacklistedUserAlwaysGetsUserError ==
    (Checked /\ \E i \in DOMAIN Cfg._blacklist : UserEntryMatches(Cfg._blacklist[i]))
        => last.value = ErrorStrings.blacklistedUser

C4_EntryMatches(e, m) ==
    \/ e.type = "user" /\ e.id = m.id
    \/ e.type = "role" /\ e.exact /\ e.id \in m.roles
    \/ /\ e.type = "role" /\ ~e.exact
       /\ e.id \in GuildRoles
       /\ CalculatedPosition(m.highestRole) >= CalculatedPosition(e.id)

C4_MatchingIndexes ==
    { i \in DOMAIN Cfg._whitelist : C4_EntryMatches(Cfg._whitelist[i], LastMember) }

WhitelistPassed ==
    ~Cfg._useWhitelist \/ WhitelistScan(Cfg._whitelist, LastMember) = JsTrue

\* C5: past the blacklist and the whitelist, the result is the DM-disabled error
\* if allowDM is false and the channel is a direct message; otherwise the
\* min-arg error if minArgs # -1 and there are fewer arguments; otherwise the
\* max-arg error if maxArgs # -1 and there are more; otherwise true.  With
\* minArgs = 2 and maxArgs = 4: 1 argument -> min-arg error, 5 -> max-arg error,
\* 2..4 -> true.
C5_DmThenMinThenMaxThenTrue ==
    (Checked /\ NoBlacklistMatch /\ WhitelistPassed)
        => LET dm == ~Cfg._allowDM /\ LastChannel.type = "dm"
               n == last.argc
           IN  /\ dm => last.value = ErrorStrings.dmDisabled
               /\ (~dm /\ Cfg._minArgs # -1 /\ n < Cfg._minArgs)
                     => last.value = ErrorStrings.minArgLimit
               /\ (~dm /\ ~(Cfg._minArgs # -1 /\ n < Cfg._minArgs)
                       /\ Cfg._maxArgs # -1 /\ n > Cfg._maxArgs)
                     => last.value = ErrorStrings.maxArgLimit
               /\ (~dm /\ ~(Cfg._minArgs # -1 /\ n < Cfg._minArgs)
                       /\ ~(Cfg._maxArgs # -1 /\ n > Cfg._maxArgs))
                     => last.value = JsTrue
               /\ (~dm /\ Cfg._minArgs = 2 /\ Cfg._maxArgs = 4)
                     => /\ n = 1 => last.value = ErrorStrings.minArgLimit
                        /\ n = 5 => last.value = ErrorStrings.maxArgLimit
                        /\ n \in 2..4 => last.value = JsTrue
               /\ (~dm /\ Cfg._minArgs = -1 /\ Cfg._maxArgs = -1)
                     => last.value = JsTrue

C5_Witness ==
    /\ Checked /\ NoBlacklistMatch /\ WhitelistPassed
    /\ Cfg._useWhitelist /\ Cfg._blacklist # <<>>
    /\ Cfg._minArgs = 2 /\ Cfg._maxArgs = 4 /\ last.argc = 4
    /\ ~Cfg._allowDM /\ LastChannel.type = "text"
    /\ last.value = JsTrue

\* The blacklist of the last call without its matching channel entries.
RECURSIVE WithoutMatchingChannel(_)
WithoutMatchingChannel(bl) ==
    IF bl = <<>> THEN <<>>
    ELSE IF ChannelEntryMatches(Head(bl)) THEN WithoutMatchingChannel(Tail(bl))
    ELSE <<Head(bl)>> \o WithoutMatchingChannel(Tail(bl))

ChannelBlacklistedOnly ==
    /\ Checked
    /\ \E i \in DOMAIN Cfg._blacklist : ChannelEntryMatches(Cfg._blacklist[i])
    /\ \A i \in DOMAIN Cfg._blacklist : ~UserEntryMatches(Cfg._blacklist[i])

\* C9 (as claimed): a blacklist `channel` entry for the current channel does not
\* block: for a caller matching no blacklist `user` entry the result is the same
\* with and without that entry.
C9_ChannelEntryIsNoOp ==
    ChannelBlacklistedOnly
        => last.value
             = checkProperties(
                 [Cfg EXCEPT !._blacklist = WithoutMatchingChannel(Cfg._blacklist)],
                 LastMember, LastChannel, last.argc)

\* C9 (amended): a blacklist `channel` entry for the current channel blocks the
\* command silently: for a caller matching no blacklist `user` entry
\* checkProperties returns false, whatever it returns without that entry.
C9_ChannelEntryDeniesSilently ==
    ChannelBlacklistedOnly => last.value = JsFalse

C9_Witness ==
    /\ ChannelBlacklistedOnly
    /\ last.value = JsFalse
    /\ checkProperties(
          [Cfg EXCEPT !._blacklist = WithoutMatchingChannel(Cfg._blacklist)],
          LastMember, LastChannel, last.argc) = JsTrue

C2_ExecDispatchesOnCheck ==
    last.op = "exec"
        => /\ last.kind = "return"
           /\ last.resp = JsTrue
                => last.value = run /\ last.runs = 1 /\ last.sent = 0
           /\ last.resp = JsFalse
                => last.value = JsFalse /\ last.runs = 0 /\ last.sent = 0
           /\ last.resp \notin {JsTrue, JsFalse}
                => last.value = JsFalse /\ last.runs = 0 /\ last.sent = 1

\* C6 (as claimed): the alias's exec returns what the linked command's exec is
\* to return for the same message and arguments (run's result when authorized,
\* false when denied) and has the same effects.
C6_AliasExecReturnsLinkResult ==
    last.op = "aliasExec"
        => /\ last.kind = "return"
           /\ last.value = (IF last.resp = JsTrue THEN run ELSE JsFalse)
           /\ last.runs = (IF last.resp = JsTrue THEN 1 ELSE 0)
           /\ last.sent = (IF last.resp \in {JsTrue, JsFalse} THEN 0 ELSE 1)

Wired(p) == props[p]._manager # JsUndefined

====
